---------------------------- MODULE Spec2Model ----------------------------
(***************************************************************************)
(* A model of scraper.js: the councillor e-mail scraper.  One run reads    *)
(* the table `data`, then either searches for the e-mails of the rows that *)
(* have none (findEmails / getEmail / getBestEmail / updateAll) or, when   *)
(* no row is eligible, merges the state databases into the table           *)
(* (fetchAndMergeStateDatabases / mergeStateDatabase / insertNewRows).     *)
(*                                                                         *)
(* JavaScript strings are sequences of one-character strings, so that the  *)
(* regular expressions, trim, toLowerCase, concatenation and the string    *)
(* comparison of Array.prototype.sort are computed character by character. *)
(* undefined / null / SQL NULL is the value Null.                          *)
(***************************************************************************)
EXTENDS Integers, Sequences, FiniteSets, TLC

(***************************************************************************)
(* Characters and strings                                                  *)
(***************************************************************************)
Lower == <<"a","b","c","d","e","f","g","h","i","j","k","l","m",
           "n","o","p","q","r","s","t","u","v","w","x","y","z">>

Upper == <<"A","B","C","D","E","F","G","H","I","J","K","L","M",
           "N","O","P","Q","R","S","T","U","V","W","X","Y","Z">>

Digit == <<"0","1","2","3","4","5","6","7","8","9">>

LowerSet == {Lower[i] : i \in 1..26}

UpperSet == {Upper[i] : i \in 1..26}

DigitSet == {Digit[i] : i \in 1..10}

\* The characters of the model in the order of their UTF-16 code units
\* (tab 9, newline 10, space 32, % 37, + 43, comma 44, - 45, . 46, / 47,
\* digits 48-57, : 58, < 60, > 62, @ 64, A-Z 65-90, _ 95, a-z 97-122).
CodeOrder == <<"\t", "\n", " ", "%", "+", ",", "-", ".", "/">> \o Digit
             \o <<":", "<", ">", "@">> \o Upper \o <<"_">> \o Lower

Code(c) == CHOOSE i \in 1..Len(CodeOrder) : CodeOrder[i] = c

\* undefined, null and SQL NULL: a value that is no string of characters.
Null == <<"undefined">>

\* JavaScript truthiness of a string-or-undefined value.
Truthy(v) == v # Null /\ v # <<>>

\* a || b
Or(a, b) == IF Truthy(a) THEN a ELSE b

ToLowerChar(c) == IF c \in UpperSet THEN Lower[CHOOSE i \in 1..26 : Upper[i] = c] ELSE c

toLowerCase(s) == [i \in 1..Len(s) |-> ToLowerChar(s[i])]

Whitespace == {" ", "\t", "\n"}

RECURSIVE TrimLeft(_)
TrimLeft(s) == IF s # <<>> /\ Head(s) \in Whitespace THEN TrimLeft(Tail(s)) ELSE s

RECURSIVE TrimRight(_)
TrimRight(s) == IF s # <<>> /\ s[Len(s)] \in Whitespace THEN TrimRight(SubSeq(s, 1, Len(s) - 1)) ELSE s

\* String.prototype.trim
trim(s) == TrimRight(TrimLeft(s))

\* haystack.indexOf(item) != -1
Contains(haystack, item) == \E i \in 1..(Len(haystack) - Len(item) + 1) : SubSeq(haystack, i, i + Len(item) - 1) = item

\* The length of the longest prefix of s, from position i on, whose characters are in cls.
RECURSIVE RunLen(_, _, _)
RunLen(s, i, cls) == IF i <= Len(s) /\ s[i] \in cls THEN 1 + RunLen(s, i + 1, cls) ELSE 0

\* s < t in JavaScript's comparison of strings (by code unit; a proper prefix is smaller).
RECURSIVE StrLess(_, _)
StrLess(s, t) == IF t = <<>> THEN FALSE
                 ELSE IF s = <<>> THEN TRUE
                 ELSE IF Head(s) = Head(t) THEN StrLess(Tail(s), Tail(t))
                 ELSE Code(Head(s)) < Code(Head(t))

\* Number.prototype.toString of a natural number.
RECURSIVE NumToString(_)
NumToString(n) == IF n < 10 THEN <<Digit[n + 1]>> ELSE NumToString(n \div 10) \o <<Digit[(n % 10) + 1]>>

(***************************************************************************)
(* The regular expressions of scraper.js                                   *)
(***************************************************************************)
\* [a-zA-Z0-9._%+-]
UserChars == LowerSet \cup UpperSet \cup DigitSet \cup {".", "_", "%", "+", "-"}

\* [a-zA-Z0-9.-]
DomainChars == LowerSet \cup UpperSet \cup DigitSet \cup {".", "-"}

\* The end (exclusive) of the match of EMAIL_REGEX that starts at position i of
\* text, 0 when there is none.  [a-zA-Z0-9._%+-]+ takes the whole run of user
\* characters, which '@' must follow; [a-zA-Z0-9.-]+ is greedy and gives back
\* characters until "\.[a-z]{2,4}" matches, so the last '.' of the domain run
\* that two lower-case letters follow is taken, with up to four letters after it.
EmailEndAt(text, i) ==
    LET u == RunLen(text, i, UserChars)
        at == i + u
        d == IF u > 0 /\ at <= Len(text) /\ text[at] = "@" THEN RunLen(text, at + 1, DomainChars) ELSE 0
        dots == {p \in (at + 2)..(at + d) : text[p] = "." /\ RunLen(text, p + 1, LowerSet) >= 2}
    IN  IF dots = {} THEN 0
        ELSE LET p == CHOOSE q \in dots : \A r \in dots : r <= q
                 n == RunLen(text, p + 1, LowerSet)
             IN  p + 1 + (IF n > 4 THEN 4 ELSE n)

\* text.match(EMAIL_REGEX) with the g flag: the non-overlapping matches from left to right.
RECURSIVE MatchFrom(_, _)
MatchFrom(text, i) ==
    IF i > Len(text) THEN <<>>
    ELSE LET e == EmailEndAt(text, i)
         IN  IF e = 0 THEN MatchFrom(text, i + 1)
             ELSE <<SubSeq(text, i, e - 1)>> \o MatchFrom(text, e)

\* text.match(EMAIL_REGEX): null when nothing matches, else the array of the matches.
MatchAll(text) == [null |-> MatchFrom(text, 1) = <<>>, matches |-> MatchFrom(text, 1)]

\* matchEmails without "|| []".
matchEmailsNoDefault(text) == IF MatchAll(text).null THEN Null ELSE MatchAll(text).matches

\* text.match(EMAIL_REGEX) || []
matchEmails(text) == IF MatchAll(text).null THEN <<>> ELSE MatchAll(text).matches

\* s.match(USER_REGEX): the leading run of user characters, Null when it is empty.
MatchUser(s) == LET n == RunLen(s, 1, UserChars) IN IF n = 0 THEN Null ELSE SubSeq(s, 1, n)

\* s.match(FIRST_REGEX): the leading run of lower-case letters, Null when it is empty.
MatchFirst(s) == LET n == RunLen(s, 1, LowerSet) IN IF n = 0 THEN Null ELSE SubSeq(s, 1, n)

\* The length of the run of lower-case letters that ends s.
RECURSIVE TailRun(_)
TailRun(s) == IF s # <<>> /\ s[Len(s)] \in LowerSet THEN 1 + TailRun(SubSeq(s, 1, Len(s) - 1)) ELSE 0

\* s.match(LAST_REGEX): the trailing run of lower-case letters, Null when it is empty.
MatchLast(s) == LET n == TailRun(s) IN IF n = 0 THEN Null ELSE SubSeq(s, Len(s) - n + 1, Len(s))

\* $("body").text() of "<body>" + content + "</body>": the text outside the tags.
RECURSIVE StripTags(_, _)
StripTags(s, inTag) ==
    IF s = <<>> THEN <<>>
    ELSE IF inTag THEN StripTags(Tail(s), Head(s) # ">")
    ELSE IF Head(s) = "<" THEN StripTags(Tail(s), TRUE)
    ELSE <<Head(s)>> \o StripTags(Tail(s), FALSE)

htmlToText(html) == StripTags(html, FALSE)

\* containsAny: the number of items of list that occur in haystack.
containsAny(haystack, list) == Cardinality({i \in 1..Len(list) : Contains(haystack, list[i])})

\* url.replace(/^http:\/\//, "").replace(/\/$/, "")
trimUrl(url) ==
    LET http == <<"h", "t", "t", "p", ":", "/", "/">>
        a == IF Len(url) >= 7 /\ SubSeq(url, 1, 7) = http THEN SubSeq(url, 8, Len(url)) ELSE url
    IN  IF a # <<>> /\ a[Len(a)] = "/" THEN SubSeq(a, 1, Len(a) - 1) ELSE a

(***************************************************************************)
(* The Levenshtein distance (new levenshtein(a, b).distance), row by row   *)
(***************************************************************************)
Min3(x, y, z) == IF x <= y /\ x <= z THEN x ELSE IF y <= z THEN y ELSE z

RECURSIVE LevNextRow(_, _, _, _)
LevNextRow(prev, ch, b, cur) ==
    IF Len(cur) = Len(b) + 1 THEN cur
    ELSE LET j == Len(cur)
         IN  LevNextRow(prev, ch, b,
                 Append(cur, Min3(prev[j + 1] + 1, cur[j] + 1, prev[j] + (IF ch = b[j] THEN 0 ELSE 1))))

RECURSIVE LevRows(_, _, _, _)
LevRows(a, b, i, prev) ==
    IF i > Len(a) THEN prev[Len(b) + 1]
    ELSE LevRows(a, b, i + 1, LevNextRow(prev, a[i], b, <<prev[1] + 1>>))

levenshtein(a, b) == LevRows(a, b, 1, [j \in 1..(Len(b) + 1) |-> j - 1])


(***************************************************************************)
(* getBestEmail                                                            *)
(***************************************************************************)
\* Array.prototype.toString of the entry [lev.distance, email, user], the
\* string by which Array.prototype.sort without a comparator orders it.
EntryString(e) == NumToString(e[1]) \o <<",">> \o e[2] \o <<",">> \o e[3]

RECURSIVE SortInsert(_, _)
SortInsert(e, s) ==
    IF s = <<>> THEN <<e>>
    ELSE IF StrLess(EntryString(e), EntryString(Head(s))) THEN <<e>> \o s
    ELSE <<Head(s)>> \o SortInsert(e, Tail(s))

\* emailsByDistance.sort(): ascending in the entries' strings.
RECURSIVE sort(_)
sort(s) == IF s = <<>> THEN <<>> ELSE SortInsert(Head(s), sort(Tail(s)))

\* The first and the last name that getBestEmail looks for.
FirstOrLast(nameLower) ==
    (IF MatchFirst(nameLower) # Null THEN <<MatchFirst(nameLower)>> ELSE <<>>)
    \o (IF MatchLast(nameLower) # Null THEN <<MatchLast(nameLower)>> ELSE <<>>)

\* getBestEmail(name, emails): <<result, email>>.  match(USER_REGEX) is null
\* for an email that starts with no user character, and null.toString()
\* throws: <<"TypeError", "">> stands for the exception.
getBestEmail(name, emails) ==
    LET nameLower == toLowerCase(trim(name))
        users == [i \in 1..Len(emails) |-> MatchUser(toLowerCase(emails[i]))]
        emailsByDistance == sort([i \in 1..Len(emails) |->
                                     <<levenshtein(nameLower, users[i]), emails[i], users[i]>>])
        firstOrLast == FirstOrLast(nameLower)
        matchingEmails == SelectSeq(emailsByDistance, LAMBDA e : containsAny(e[3], firstOrLast) > 0)
    IN  IF \E i \in 1..Len(emails) : users[i] = Null THEN <<"TypeError", <<>>>>
        ELSE IF Len(matchingEmails) > 0 THEN <<"email", matchingEmails[1][2]>>
        ELSE IF Len(emailsByDistance) > 0 THEN <<"no-matching-email", emailsByDistance[1][2]>>
        ELSE <<"no-email-found", <<>>>>

(***************************************************************************)
(* Records, keys and the merge of a state database                         *)
(***************************************************************************)
\* row.f: undefined when the object has no property f.
Field(row, f) == IF f \in DOMAIN row THEN row[f] ELSE Null

\* keyFromRow without the columns of South Australia.
keyFromRowCouncillorOnly(row) ==
    trim(Or(Field(row, "councillor"), <<>>) \o Or(Field(row, "council_name"), <<>>))

keyFromRow(row) ==
    LET name == Or(Or(Field(row, "councillor"), Field(row, "name")), <<>>)
        council == Or(Or(Field(row, "council_name"), Field(row, "council")), <<>>)
    IN  trim(name \o council)

\* The object literal of mergeStateDatabase: the row built from a row of a state database.
\* The object literal without the columns of South Australia.
NewRowNoFallback(otherRow) ==
    [councillor |-> Field(otherRow, "councillor"),
     position |-> Field(otherRow, "position"),
     council_name |-> Field(otherRow, "council_name"),
     ward |-> Field(otherRow, "ward"),
     council_website |-> Field(otherRow, "council_website"),
     email |-> Field(otherRow, "email")]

NewRow(otherRow) ==
    [councillor |-> Or(Field(otherRow, "councillor"), Field(otherRow, "name")),
     position |-> Field(otherRow, "position"),
     council_name |-> Or(Field(otherRow, "council_name"), Field(otherRow, "council")),
     ward |-> Field(otherRow, "ward"),
     council_website |-> Or(Field(otherRow, "council_website"), Field(otherRow, "council_url")),
     email |-> Field(otherRow, "email")]

\* mergeStateDatabase without rowMap.put: a row added from one database is not remembered.
RECURSIVE mergeStateDatabaseNoPut(_, _, _)
mergeStateDatabaseNoPut(newRows, rowMap, other) ==
    IF other = <<>> THEN [newRows |-> newRows, rowMap |-> rowMap]
    ELSE LET key == keyFromRow(Head(other))
         IN  IF key \in rowMap THEN mergeStateDatabaseNoPut(newRows, rowMap, Tail(other))
             ELSE mergeStateDatabaseNoPut(Append(newRows, NewRow(Head(other))), rowMap, Tail(other))

\* mergeStateDatabase without the test rowMap.has(key): every row is appended.
mergeStateDatabaseNoHas(newRows, rowMap, other) ==
    [newRows |-> newRows \o [i \in 1..Len(other) |-> NewRow(other[i])],
     rowMap |-> rowMap \cup {keyFromRow(other[i]) : i \in 1..Len(other)}]

\* mergeStateDatabase(newRows, rowMap, other) for an array other: the rows of
\* other whose key rowMap lacks are appended to newRows and put into rowMap.
\* rowMap is the set of the hashtable's keys (its values are never read).
RECURSIVE mergeStateDatabase(_, _, _)
mergeStateDatabase(newRows, rowMap, other) ==
    IF other = <<>> THEN [newRows |-> newRows, rowMap |-> rowMap]
    ELSE LET key == keyFromRow(Head(other))
         IN  IF key \in rowMap THEN mergeStateDatabase(newRows, rowMap, Tail(other))
             ELSE mergeStateDatabase(Append(newRows, NewRow(Head(other))), rowMap \cup {key}, Tail(other))

\* MORPH_STATE_DATABASES.split(",")
RECURSIVE Split(_, _)
Split(s, cur) ==
    IF s = <<>> THEN <<cur>>
    ELSE IF Head(s) = "," THEN <<cur>> \o Split(Tail(s), <<>>)
    ELSE Split(Tail(s), Append(cur, Head(s)))

\* repo.match(/^[A-Za-z0-9_\-\/]+$/)
ValidRepo(repo) ==
    /\ repo # <<>>
    /\ \A i \in 1..Len(repo) : repo[i] \in LowerSet \cup UpperSet \cup DigitSet \cup {"_", "-", "/"}

StateDatabases(envValue) == SelectSeq(Split(envValue, <<>>), ValidRepo)


(***************************************************************************)
(* Constants of scraper.js (scaled down) and the bounds of the model       *)
(***************************************************************************)
\* var MAX_SEARCH_RESULTS = 10: the result pages fetched for one search.
MAX_SEARCH_RESULTS == 2

\* var MAX_SEARCHES_PER_RUN = 200: the searches dispatched by one run.
MAX_SEARCHES_PER_RUN == 2

\* The number of runs of the scraper in one behaviour.
MaxRuns == 4

(***************************************************************************)
(* The data of the model: names, sites, e-mails, pages, state databases    *)
(***************************************************************************)
Jo == <<"J", "o">>

Al == <<"A", "l">>

Di == <<"D", "i">>

CouncilX == <<"X">>

SiteX == <<"h", "t", "t", "p", ":", "/", "/", "x", ".", "a", "u", "/">>

None == <<"n", "o", "n", "e">>

EmailJo == <<"j", "o", "@", "x", ".", "a", "u">>

EmailInfo == <<"i", "n", "f", "o", "@", "x", ".", "a", "u">>

\* A row of the table data.
Row(councillor, council_name, council_website, email) ==
    [councillor |-> councillor, position |-> Null, council_name |-> council_name,
     ward |-> Null, council_website |-> council_website, email |-> email]

\* The tables a behaviour may start from; the keys of each are pairwise distinct.
InitStores ==
    { <<>>,
      <<Row(Jo, CouncilX, SiteX, None), Row(Al, CouncilX, SiteX, Null)>>,
      <<Row(Jo, CouncilX, SiteX, <<>>), Row(Al, CouncilX, SiteX, Null), Row(Di, CouncilX, SiteX, EmailInfo)>>,
      <<Row(Null, CouncilX, SiteX, Null), Row(Al, CouncilX, Null, Null)>> }

\* The values of MORPH_STATE_DATABASES: "a,b", "b,a", "a b," (no name passes
\* the filter) and "d".
Envs ==
    { <<"a", ",", "b">>, <<"b", ",", "a">>, <<"a", " ", "b", ",">>, <<"d">> }

\* The rows that api.morph.io serves for a state database.  Database "a" uses
\* the column names of this scraper, "b" those of South Australia; "b" repeats
\* a councillor of "a", holds one councillor twice, and holds a councillor
\* whose name and council concatenate to the key of another ("J" + "oX").
\* Database "c" holds one councillor, without email; the councillors of
\* database "d" have emails.
Remote(scraper) ==
    IF scraper = <<"c">>
    THEN << [councillor |-> Jo, council_name |-> CouncilX, council_website |-> SiteX] >>
    ELSE IF scraper = <<"d">>
    THEN << [councillor |-> Di, council_name |-> CouncilX, email |-> EmailInfo],
            [name |-> Al, council |-> CouncilX, council_url |-> SiteX, email |-> None] >>
    ELSE IF scraper = <<"a">>
    THEN << [councillor |-> Jo, council_name |-> CouncilX, council_website |-> SiteX],
            [councillor |-> Al, council_name |-> CouncilX, council_website |-> SiteX, email |-> <<>>] >>
    ELSE << [name |-> Di, council |-> CouncilX, council_url |-> SiteX],
            [name |-> Al, council |-> CouncilX, council_url |-> SiteX],
            [name |-> <<"J">>, council |-> <<"o", "X">>, council_url |-> SiteX],
            [name |-> Di, council |-> CouncilX, council_url |-> SiteX, email |-> EmailInfo] >>

\* One result of a web search: its url and its snippet.
Result(url, content) == [url |-> url, content |-> content, fileFormat |-> Null]

\* A result that the search flags as a file, not a page: fileFormat is set.
FileResult(url, content) ==
    [url |-> url, content |-> content, fileFormat |-> <<"P", "D", "F">>]

\* "jo@<b>x</b>.au": an address only once the tags are removed.
SnippetJo == <<"j", "o", "@", "<", "b", ">", "x", "<", "/", "b", ">", ".", "a", "u">>

SnippetPlain == <<"<", "b", ">", "J", "o", "<", "/", "b", ">">>

\* The values of responseData.results that the search may return.
ResultLists ==
    { <<>>,
      <<Result(<<"u">>, SnippetJo)>>,
      <<Result(<<"u">>, SnippetPlain), FileResult(<<"v">>, SnippetPlain), Result(<<"w">>, SnippetPlain)>> }

\* The bodies a page fetch may return; the empty body is also what fetchPage
\* passes on after an error.
PageBodies ==
    { <<>>,
      <<"<", "p", ">", "h", "i", "<", "/", "p", ">">>,
      <<"<", "a", ">">> \o EmailInfo \o <<"<", "/", "a", ">">>,
      EmailInfo \o <<" ", "J", "O", "@", "X", ".", "a", "u", "<", "b", "r", ">">> }


(***************************************************************************)
(* findEmails, updateAll, insertNewRows                                    *)
(***************************************************************************)
\* findEmails with a test of row.email that takes "none" for no email.
RowOutcomeRetryNone(row) ==
    IF Truthy(row.email) /\ row.email # <<"n", "o", "n", "e">> THEN "existing-email"
    ELSE IF ~Truthy(row.councillor) THEN "no-councillor-name"
    ELSE IF ~Truthy(row.council_website) THEN "no-council-website"
    ELSE "search"

\* What findEmails does with a row that it reaches within the budget: the
\* result it gives the row, or "search" when it dispatches getEmail for it.
RowOutcome(row) ==
    IF Truthy(row.email) THEN "existing-email"
    ELSE IF ~Truthy(row.councillor) THEN "no-councillor-name"
    ELSE IF ~Truthy(row.council_website) THEN "no-council-website"
    ELSE "search"

\* The forEach of findEmails from row i on, with getEmailCount searches
\* dispatched so far for the rows in scheduled.
RECURSIVE FindEmailsLoop(_, _, _, _, _)
FindEmailsLoop(all, i, count, scheduled, max) ==
    IF i > Len(all) THEN [rows |-> all, getEmailCount |-> count, scheduled |-> scheduled]
    ELSE IF count >= max THEN FindEmailsLoop(all, i + 1, count, scheduled, max)
    ELSE IF RowOutcome(all[i]) # "search"
         THEN FindEmailsLoop([all EXCEPT ![i].result = RowOutcome(all[i])], i + 1, count, scheduled, max)
    ELSE FindEmailsLoop(all, i + 1, count + 1, scheduled \cup {i}, max)

\* findEmails without the test of getEmailCount against MAX_SEARCHES_PER_RUN.
findEmailsNoBudget(all) == FindEmailsLoop(all, 1, 0, {}, Len(all) + 1)

\* The synchronous part of findEmails: the rows with their results, the
\* number of searches dispatched and the rows they are dispatched for.
findEmails(all) == FindEmailsLoop(all, 1, 0, {}, MAX_SEARCHES_PER_RUN)

\* findEmails without its return after "Getting emails for ...": nothingToDo
\* is called whatever was dispatched.
SearchesDispatchedIgnored(count) == FALSE

\* The test that ends findEmails: with searches dispatched it returns, with
\* none it calls nothingToDo.
SearchesDispatched(count) == count > 0

\* updateAll without the branch for no-email-found.
UpdateOfForgetsNotFound(all, i) ==
    IF all[i].result = "email" THEN <<[op |-> "UPDATE", email |-> all[i].email, rowid |-> i]>>
    ELSE IF all[i].result = "no-matching-email"
         THEN <<[op |-> "UPDATE", email |-> <<"n", "o", "n", "e">>, rowid |-> i]>>
    ELSE <<>>

\* updateAll writing the closest candidate of a row without matching email.
UpdateOfStoresClosest(all, i) ==
    IF all[i].result \in {"email", "no-matching-email"}
    THEN <<[op |-> "UPDATE", email |-> all[i].email, rowid |-> i]>>
    ELSE IF all[i].result = "no-email-found"
         THEN <<[op |-> "UPDATE", email |-> <<"n", "o", "n", "e">>, rowid |-> i]>>
    ELSE <<>>

\* updateAll with the index of the loop, from 0, for the rowid.
UpdateOfZeroBased(all, i) ==
    IF all[i].result = "email" THEN <<[op |-> "UPDATE", email |-> all[i].email, rowid |-> i - 1]>>
    ELSE IF all[i].result \in {"no-matching-email", "no-email-found"}
         THEN <<[op |-> "UPDATE", email |-> <<"n", "o", "n", "e">>, rowid |-> i - 1]>>
    ELSE <<>>

\* updateAll with the result looked up by the key of the row: a row gets
\* "none" when a row with its key was searched and no email was kept.
UpdateOfByKey(all, i) ==
    IF \E j \in 1..Len(all) : /\ keyFromRow(all[j]) = keyFromRow(all[i])
                              /\ all[j].result \in {"no-matching-email", "no-email-found"}
    THEN <<[op |-> "UPDATE", email |-> <<"n", "o", "n", "e">>, rowid |-> i]>>
    ELSE IF all[i].result = "email" THEN <<[op |-> "UPDATE", email |-> all[i].email, rowid |-> i]>>
    ELSE <<>>

\* The statement that updateAll issues for the row at position i (rowid i), if any.
UpdateOf(all, i) ==
    IF all[i].result = "email" THEN <<[op |-> "UPDATE", email |-> all[i].email, rowid |-> i]>>
    ELSE IF all[i].result \in {"no-matching-email", "no-email-found"}
         THEN <<[op |-> "UPDATE", email |-> None, rowid |-> i]>>
    ELSE <<>>

RECURSIVE UpdatesFrom(_, _)
UpdatesFrom(all, i) == IF i > Len(all) THEN <<>> ELSE UpdateOf(all, i) \o UpdatesFrom(all, i + 1)

\* updateAll: the UPDATE statements it issues, in order.
updateAll(all) == UpdatesFrom(all, 1)

\* insertNewRows: one INSERT for each new row, in order.
insertNewRows(new) == [i \in 1..Len(new) |-> [op |-> "INSERT", row |-> new[i]]]

\* INSERT taken for a statement that replaces the last row of the table.
ExecuteInsertReplaces(table, stmt) ==
    IF stmt.op = "INSERT"
    THEN (IF table = <<>> THEN <<stmt.row>> ELSE [table EXCEPT ![Len(table)] = stmt.row])
    ELSE [i \in 1..Len(table) |-> IF i = stmt.rowid THEN [table[i] EXCEPT !.email = stmt.email] ELSE table[i]]

\* The table after one statement; the rowid of a row is its position.
Execute(table, stmt) ==
    IF stmt.op = "INSERT" THEN Append(table, stmt.row)
    ELSE [i \in 1..Len(table) |-> IF i = stmt.rowid THEN [table[i] EXCEPT !.email = stmt.email] ELSE table[i]]

RECURSIVE ExecuteAll(_, _)
ExecuteAll(table, stmts) ==
    IF stmts = <<>> THEN table ELSE ExecuteAll(Execute(table, Head(stmts)), Tail(stmts))

\* row.result of a row that was given none (undefined).
NoResult == ""

\* The columns of the table in a row read from it.
Columns(row) ==
    [councillor |-> row.councillor, position |-> row.position, council_name |-> row.council_name,
     ward |-> row.ward, council_website |-> row.council_website, email |-> row.email]

\* SELECT * FROM data: the rows in rowid order, as objects without a result.
readAll(table) ==
    [i \in 1..Len(table) |->
        [councillor |-> table[i].councillor, position |-> table[i].position,
         council_name |-> table[i].council_name, ward |-> table[i].ward,
         council_website |-> table[i].council_website, email |-> table[i].email,
         result |-> NoResult]]

(***************************************************************************)
(* The state                                                               *)
(***************************************************************************)
VARIABLES
    store,              \* the table data of data.sqlite, in rowid order
    env,                \* process.env.MORPH_STATE_DATABASES
    pc,                 \* where the process is: idle, reading, searching, merging, closed, crashed, exited
    runs,               \* the number of runs started
    rows,               \* the rows read by readAll, each with its result
    getEmailCount,      \* findEmails: the searches outstanding
    task,               \* for each row, the state of its getEmail
    queries,            \* the queries sent to the web search in this run
    rowMap,             \* fetchAndMergeStateDatabases: the keys in the hashtable
    newRows,            \* the rows to insert
    fetchDatabaseCount, \* the fetches outstanding
    stateDatabases,     \* the names that pass the filter
    fetch,              \* for each of them, the state of its fetchDatabase
    requests,           \* the state databases requested in this run
    writes,             \* the statements issued to the table in this run
    closes,             \* the number of calls of db.close in this run
    error,              \* the uncaught exception that ended the process, if any
    call,               \* a function applied on its own: its name, arguments and value
    passes              \* the runs so far in which insertNewRows was called

vars == <<store, env, pc, runs, rows, getEmailCount, task, queries, rowMap, newRows,
          fetchDatabaseCount, stateDatabases, fetch, requests, writes, closes, error, call, passes>>

\* What no callback of a run changes: the environment and the function applied on its own.
fixed == <<env, call>>

\* The variables of one run, but for pc and error.
runVars == <<rows, getEmailCount, task, queries, rowMap, newRows,
             fetchDatabaseCount, stateDatabases, fetch, requests, writes, closes>>

NoTask == [st |-> "none", results |-> <<>>, index |-> 0, emails |-> <<>>]

NoCall == [fn |-> "", args |-> <<>>, ret |-> <<>>]

\* The state before the first run, but for the table and the environment.
Idle ==
    /\ pc = "idle"
    /\ runs = 0
    /\ rows = <<>>
    /\ getEmailCount = 0
    /\ task = <<>>
    /\ queries = <<>>
    /\ rowMap = {}
    /\ newRows = <<>>
    /\ fetchDatabaseCount = 0
    /\ stateDatabases = <<>>
    /\ fetch = <<>>
    /\ requests = <<>>
    /\ writes = <<>>
    /\ closes = 0
    /\ error = ""
    /\ passes = 0

Init ==
    /\ store \in InitStores
    /\ env \in Envs
    /\ call = NoCall
    /\ Idle


(***************************************************************************)
(* The actions: one per callback of the event loop                         *)
(***************************************************************************)
Indices == 1..Len(rows)

\* An uncaught exception: the process dies; nothing was written yet, and
\* db.close is not called.
Crash(exception) ==
    /\ pc' = "crashed"
    /\ error' = exception
    /\ UNCHANGED <<store, fixed, passes, runs, runVars>>

\* run(): a new process opens the database and issues SELECT * FROM data.
Run ==
    /\ pc \in {"idle", "closed", "crashed", "exited"}
    /\ runs < MaxRuns
    /\ pc' = "reading"
    /\ runs' = runs + 1
    /\ rows' = <<>>
    /\ getEmailCount' = 0
    /\ task' = <<>>
    /\ queries' = <<>>
    /\ rowMap' = {}
    /\ newRows' = <<>>
    /\ fetchDatabaseCount' = 0
    /\ stateDatabases' = <<>>
    /\ fetch' = <<>>
    /\ requests' = <<>>
    /\ writes' = <<>>
    /\ closes' = 0
    /\ error' = ""
    /\ UNCHANGED <<store, fixed, passes>>

\* The callback of readAll: findEmails(rows, ...).  With searches dispatched
\* it returns; otherwise nothingToDo calls fetchAndMergeStateDatabases, which
\* fills rowMap and schedules one fetchDatabase per state database.  With no
\* state database nothing is pending and the process ends without db.close.
ReadAllCallback ==
    /\ pc = "reading"
    /\ LET found == findEmails(readAll(store))
           dbs == StateDatabases(env)
       IN  /\ rows' = found.rows
           /\ getEmailCount' = found.getEmailCount
           /\ IF SearchesDispatched(found.getEmailCount)
              THEN /\ task' = [i \in 1..Len(store) |->
                                  IF i \in found.scheduled THEN [NoTask EXCEPT !.st = "scheduled"] ELSE NoTask]
                   /\ pc' = "searching"
                   /\ UNCHANGED <<rowMap, fetchDatabaseCount, stateDatabases, fetch>>
              ELSE /\ task' = [i \in 1..Len(store) |-> NoTask]
                   /\ rowMap' = {keyFromRow(found.rows[i]) : i \in 1..Len(store)}
                   /\ stateDatabases' = dbs
                   /\ fetchDatabaseCount' = Len(dbs)
                   /\ fetch' = [k \in 1..Len(dbs) |-> "scheduled"]
                   /\ pc' = IF Len(dbs) = 0 THEN "exited" ELSE "merging"
    /\ UNCHANGED <<store, fixed, passes, runs, queries, newRows, requests, writes, closes, error>>

\* The callback of getEmail with updateAll called at every completion, not
\* only at the last one.
GetEmailDoneEager(i, emails, all) ==
    /\ rows' = all
    /\ task' = [task EXCEPT ![i] = [NoTask EXCEPT !.st = "done", !.emails = emails]]
    /\ getEmailCount' = getEmailCount - 1
    /\ writes' = updateAll(all)
    /\ store' = ExecuteAll(store, updateAll(all))
    /\ IF getEmailCount - 1 = 0
       THEN closes' = closes + 1 /\ pc' = "closed"
       ELSE UNCHANGED <<closes, pc>>
    /\ UNCHANGED <<fixed, passes, runs, queries, rowMap, newRows, fetchDatabaseCount, stateDatabases, fetch,
                   requests, error>>

\* The callback that getEmail gets from findEmails, with the emails that
\* getEmail collected and the rows as it leaves them: the last one to return calls updateAll, which issues
\* its statements and calls closeDatabase.
GetEmailDone(i, emails, all) ==
    /\ rows' = all
    /\ task' = [task EXCEPT ![i] = [NoTask EXCEPT !.st = "done", !.emails = emails]]
    /\ getEmailCount' = getEmailCount - 1
    /\ IF getEmailCount - 1 = 0
       THEN /\ writes' = updateAll(all)
            /\ store' = ExecuteAll(store, updateAll(all))
            /\ closes' = closes + 1
            /\ pc' = "closed"
       ELSE UNCHANGED <<store, writes, closes, pc>>
    /\ UNCHANGED <<fixed, passes, runs, queries, rowMap, newRows, fetchDatabaseCount, stateDatabases, fetch,
                   requests, error>>

\* The final callback of getEmailsFromSearch in getEmail.
BestEmailFound(i, emails) ==
    LET best == getBestEmail(rows[i].councillor, emails)
    IN  IF best[1] = "TypeError" THEN Crash("TypeError: getBestEmail")
        ELSE GetEmailDone(i, emails, [rows EXCEPT ![i].email = best[2], ![i].result = best[1]])

\* getEmailsInResultPage(results, index, emails, finalCallback), index from 0.
getEmailsInResultPage(i, results, index, emails) ==
    IF index = Len(results) \/ index >= MAX_SEARCH_RESULTS
    THEN BestEmailFound(i, emails)
    ELSE /\ task' = [task EXCEPT ![i] = [st |-> "page", results |-> results, index |-> index, emails |-> emails]]
         /\ UNCHANGED <<store, fixed, passes, error, pc, runs, rows, getEmailCount, queries, rowMap, newRows,
                        fetchDatabaseCount, stateDatabases, fetch, requests, writes, closes>>

\* The emails in the snippets of the results, in order.
RECURSIVE SnippetEmails(_)
SnippetEmails(results) ==
    IF results = <<>> THEN <<>>
    ELSE matchEmails(htmlToText(<<"<", "b", "o", "d", "y", ">">> \o Head(results).content
                                \o <<"<", "/", "b", "o", "d", "y", ">">>))
         \o SnippetEmails(Tail(results))

\* The query of getEmail: row.councillor + " site:" + trimUrl(row.council_website)
Query(row) == row.councillor \o <<" ", "s", "i", "t", "e", ":">> \o trimUrl(row.council_website)

\* The setImmediate of findEmails for row i: getEmail sends the query.  The
\* immediates run in the order in which findEmails queued them.
GetEmail(i) ==
    /\ pc = "searching"
    /\ task[i].st = "scheduled"
    /\ \A j \in Indices : j < i => task[j].st # "scheduled"
    /\ task' = [task EXCEPT ![i].st = "query"]
    /\ queries' = Append(queries, [row |-> i, q |-> Query(rows[i])])
    /\ UNCHANGED <<store, fixed, passes, error, pc, runs, rows, getEmailCount, rowMap, newRows,
                   fetchDatabaseCount, stateDatabases, fetch, requests, writes, closes>>

\* A response of the network is handled once the queued immediates have run.
Polling(i, st) ==
    /\ pc = "searching"
    /\ task[i].st = st
    /\ \A j \in Indices : task[j].st # "scheduled"

\* googleSearch without the return after callback(null): the callback of
\* getEmail is called a second time for the same search.
SearchErrorTwice(i) ==
    /\ Polling(i, "query")
    /\ rows' = [rows EXCEPT ![i].result = "error-during-search"]
    /\ task' = [task EXCEPT ![i] = [NoTask EXCEPT !.st = "done"]]
    /\ getEmailCount' = getEmailCount - 2
    /\ IF getEmailCount - 1 = 0 \/ getEmailCount - 2 = 0
       THEN /\ writes' = updateAll(rows')
            /\ store' = ExecuteAll(store, updateAll(rows'))
            /\ closes' = closes + 1
            /\ pc' = "closed"
       ELSE UNCHANGED <<store, writes, closes, pc>>
    /\ UNCHANGED <<fixed, passes, runs, queries, rowMap, newRows, fetchDatabaseCount, stateDatabases, fetch,
                   requests, error>>

\* googleSearch: the request fails; callback(null).
SearchError(i) ==
    /\ Polling(i, "query")
    /\ GetEmailDone(i, <<>>, [rows EXCEPT ![i].result = "error-during-search"])

\* googleSearch: the body is no JSON; JSON.parse throws in the callback of request.
SearchUnparseable(i) ==
    /\ Polling(i, "query")
    /\ Crash("SyntaxError: googleSearch")

\* googleSearch: a response without responseData or without results.
SearchNoResults(i) ==
    /\ Polling(i, "query")
    /\ GetEmailDone(i, <<>>, [rows EXCEPT ![i].result = "no-search-results"])

\* googleSearch: a response with results; getEmailsFromSearch.
SearchResults(i, results) ==
    /\ Polling(i, "query")
    /\ getEmailsInResultPage(i, results, 0, SnippetEmails(results))

\* getEmailsInResultPage with one array of emails for all the searches: the
\* emails of a page are added to the candidates of every search that is
\* fetching pages.
PageFetchedShared(i, html) ==
    /\ Polling(i, "page")
    /\ task' = [j \in Indices |->
                   IF j = i THEN [task[j] EXCEPT !.st = "immediate", !.emails = @ \o matchEmails(html)]
                   ELSE IF task[j].st \in {"page", "immediate"}
                        THEN [task[j] EXCEPT !.emails = @ \o matchEmails(html)]
                   ELSE task[j]]
    /\ UNCHANGED <<store, fixed, passes, error, pc, runs, rows, getEmailCount, queries, rowMap, newRows,
                   fetchDatabaseCount, stateDatabases, fetch, requests, writes, closes>>

\* fetchPage: the page (the empty string after an error); its emails are
\* added and the next page is left to setImmediate.
PageFetched(i, html) ==
    /\ Polling(i, "page")
    /\ task' = [task EXCEPT ![i].st = "immediate", ![i].emails = @ \o matchEmails(html)]
    /\ UNCHANGED <<store, fixed, passes, error, pc, runs, rows, getEmailCount, queries, rowMap, newRows,
                   fetchDatabaseCount, stateDatabases, fetch, requests, writes, closes>>

\* The setImmediate of getEmailsInResultPage.
NextResultPage(i) ==
    /\ pc = "searching"
    /\ task[i].st = "immediate"
    /\ getEmailsInResultPage(i, task[i].results, task[i].index + 1, task[i].emails)

\* The setImmediate of fetchAndMergeStateDatabases for the k-th state
\* database: fetchDatabase sends the request.
FetchDatabase(k) ==
    /\ pc = "merging"
    /\ fetch[k] = "scheduled"
    /\ \A j \in 1..Len(fetch) : j < k => fetch[j] # "scheduled"
    /\ fetch' = [fetch EXCEPT ![k] = "requested"]
    /\ requests' = Append(requests, stateDatabases[k])
    /\ UNCHANGED <<store, fixed, passes, error, pc, runs, rows, getEmailCount, task, queries, rowMap, newRows,
                   fetchDatabaseCount, stateDatabases, writes, closes>>

Fetching(k) ==
    /\ pc = "merging"
    /\ fetch[k] = "requested"
    /\ \A j \in 1..Len(fetch) : fetch[j] # "scheduled"

\* fetchDatabase: the rows arrive; they are merged, and the last fetch to
\* return calls insertNewRows, which issues its statements and calls closeDatabase.
DatabaseFetched(k) ==
    /\ Fetching(k)
    /\ LET merged == mergeStateDatabase(newRows, rowMap, Remote(stateDatabases[k]))
       IN  /\ newRows' = merged.newRows
           /\ rowMap' = merged.rowMap
           /\ fetch' = [fetch EXCEPT ![k] = "done"]
           /\ fetchDatabaseCount' = fetchDatabaseCount - 1
           /\ IF fetchDatabaseCount - 1 = 0
              THEN /\ writes' = insertNewRows(merged.newRows)
                   /\ store' = ExecuteAll(store, insertNewRows(merged.newRows))
                   /\ closes' = closes + 1
                   /\ passes' = passes + 1
                   /\ pc' = "closed"
              ELSE UNCHANGED <<store, writes, closes, passes, pc>>
    /\ UNCHANGED <<fixed, runs, rows, getEmailCount, task, queries, stateDatabases, requests, error>>

\* fetchDatabase: the request fails; callback(null), and mergeStateDatabase
\* calls forEach of null, which throws.
DatabaseError(k) ==
    /\ Fetching(k)
    /\ Crash("TypeError: mergeStateDatabase")

\* fetchDatabase: the body is no JSON; JSON.parse throws in the callback of request.
DatabaseUnparseable(k) ==
    /\ Fetching(k)
    /\ Crash("SyntaxError: fetchDatabase")

Next ==
    \/ Run
    \/ ReadAllCallback
    \/ \E i \in Indices : GetEmail(i)
    \/ \E i \in Indices : SearchError(i)
    \/ \E i \in Indices : SearchUnparseable(i)
    \/ \E i \in Indices : SearchNoResults(i)
    \/ \E i \in Indices, results \in ResultLists : SearchResults(i, results)
    \/ \E i \in Indices, html \in PageBodies : PageFetched(i, html)
    \/ \E i \in Indices : NextResultPage(i)
    \/ \E k \in 1..Len(fetch) : FetchDatabase(k)
    \/ \E k \in 1..Len(fetch) : DatabaseFetched(k)
    \/ \E k \in 1..Len(fetch) : DatabaseError(k)
    \/ \E k \in 1..Len(fetch) : DatabaseUnparseable(k)

Spec == Init /\ [][Next]_vars

(***************************************************************************)
(* The end-to-end scenario: an empty table and the one state database "c", *)
(* which is served whenever it is requested                                *)
(***************************************************************************)
InitE2E ==
    /\ store = <<>>
    /\ env = <<"c">>
    /\ call = NoCall
    /\ Idle

NextE2E ==
    \/ Run
    \/ ReadAllCallback
    \/ \E i \in Indices : GetEmail(i)
    \/ \E i \in Indices : SearchError(i)
    \/ \E i \in Indices : SearchUnparseable(i)
    \/ \E i \in Indices : SearchNoResults(i)
    \/ \E i \in Indices, results \in ResultLists : SearchResults(i, results)
    \/ \E i \in Indices, html \in PageBodies : PageFetched(i, html)
    \/ \E i \in Indices : NextResultPage(i)
    \/ \E k \in 1..Len(fetch) : FetchDatabase(k)
    \/ \E k \in 1..Len(fetch) : DatabaseFetched(k)

SpecE2E == InitE2E /\ [][NextE2E]_vars

(***************************************************************************)
(* Runs on a table that was written by other means and holds two rows with *)
(* the same key, next to the tables of Init                                *)
(***************************************************************************)
DupStores ==
    { <<Row(Jo, CouncilX, SiteX, EmailInfo), Row(Jo, CouncilX, SiteX, Null)>>,
      <<Row(Jo, CouncilX, SiteX, Null), Row(Jo, CouncilX, SiteX, EmailJo), Row(Al, CouncilX, SiteX, None)>> }

InitDup ==
    /\ store \in InitStores \cup DupStores
    /\ env \in Envs
    /\ call = NoCall
    /\ Idle

SpecDup == InitDup /\ [][Next]_vars

(***************************************************************************)
(* Repeated runs in which every search returns results.  A callback that   *)
(* is pending is run in the end, and a process that has ended is followed  *)
(* by the next one                                                         *)
(***************************************************************************)
NextConverge ==
    \/ Run
    \/ ReadAllCallback
    \/ \E i \in Indices : GetEmail(i)
    \/ \E i \in Indices, results \in ResultLists : SearchResults(i, results)
    \/ \E i \in Indices, html \in PageBodies : PageFetched(i, html)
    \/ \E i \in Indices : NextResultPage(i)
    \/ \E k \in 1..Len(fetch) : FetchDatabase(k)
    \/ \E k \in 1..Len(fetch) : DatabaseFetched(k)
    \/ \E k \in 1..Len(fetch) : DatabaseError(k)
    \/ \E k \in 1..Len(fetch) : DatabaseUnparseable(k)

\* The steps of NextConverge other than the callback of db.all and the
\* immediates of getEmailsInResultPage.
Callbacks ==
    \/ Run
    \/ \E i \in Indices : GetEmail(i)
    \/ \E i \in Indices, results \in ResultLists : SearchResults(i, results)
    \/ \E i \in Indices, html \in PageBodies : PageFetched(i, html)
    \/ \E k \in 1..Len(fetch) : FetchDatabase(k)
    \/ \E k \in 1..Len(fetch) : DatabaseFetched(k)
    \/ \E k \in 1..Len(fetch) : DatabaseError(k)
    \/ \E k \in 1..Len(fetch) : DatabaseUnparseable(k)

\* An immediate queued by getEmailsInResultPage is waiting.
ImmediatePending == \E i \in Indices : pc = "searching" /\ task[i].st = "immediate"

\* The event loop runs a callback that is ready (WF_vars(Callbacks)), the
\* callback of db.all and an immediate that is queued.  Only ReadAllCallback
\* leaves pc = "reading" and only NextResultPage ends ImmediatePending, so
\* the last two conjuncts are WF_vars(ReadAllCallback) and
\* WF_vars(\E i \in Indices : NextResultPage(i)), stated on the states.
SpecConverge ==
    /\ Init /\ [][NextConverge]_vars
    /\ WF_vars(Callbacks)
    /\ []<>(pc # "reading")
    /\ []<>~ImmediatePending

(***************************************************************************)
(* getBestEmail applied on its own to a name and a list of candidates      *)
(***************************************************************************)
\* The longest list of candidates.
MaxCandidates == 2

AlDi == <<"A", "l", " ", "D", "i">>

\* "al" and nine more characters: at distance 9 from "al".
EmailAl9 == <<"a", "l", "b", "c", "d", "e", "f", "g", "h", "i", "j", "@", "x", ".", "a", "u">>

\* "al" and ten more characters: at distance 10 from "al".
EmailAl10 == <<"a", "l", "b", "c", "d", "e", "f", "g", "h", "i", "j", "k", "@", "x", ".", "a", "u">>

EmailAlDi == <<"A", "l", ".", "D", "i", "@", "x", ".", "a", "u">>

\* "@x.au": a candidate that begins with no character of the local part.
EmailNoUser == <<"@", "x", ".", "a", "u">>

BestNames == {Al, Jo, AlDi}

BestCandidates == {EmailJo, EmailInfo, EmailAl9, EmailAl10, EmailAlDi, EmailNoUser}

CandidateLists == UNION {[1..n -> BestCandidates] : n \in 0..MaxCandidates}

InitBest ==
    /\ store = <<>>
    /\ env = <<>>
    /\ call \in {[fn |-> "getBestEmail", args |-> <<name, emails>>, ret |-> <<>>] :
                    name \in BestNames, emails \in CandidateLists}
    /\ Idle

ApplyGetBestEmail ==
    /\ call.fn = "getBestEmail"
    /\ call.ret = <<>>
    /\ call' = [call EXCEPT !.ret = getBestEmail(call.args[1], call.args[2])]
    /\ UNCHANGED <<store, env, pc, error, runs, runVars, passes>>

NextBest == ApplyGetBestEmail

SpecBest == InitBest /\ [][NextBest]_vars


(***************************************************************************)
(* keyFromRow applied on its own to a row                                  *)
(***************************************************************************)
\* The columns that keyFromRow reads.
KeyFields == {"councillor", "name", "council_name", "council"}

\* The values of a column: null, "", "Jo" and " x ".
KeyValues == {Null, <<>>, Jo, <<" ", "x", " ">>}

\* The rows: every set of columns present, with every value.
KeyRows == UNION {[D -> KeyValues] : D \in SUBSET KeyFields}

InitKey ==
    /\ store = <<>>
    /\ env = <<>>
    /\ call \in {[fn |-> "keyFromRow", args |-> <<row>>, ret |-> <<>>] : row \in KeyRows}
    /\ Idle

\* The value returned is kept in a 1-tuple (the key may be "").
ApplyKeyFromRow ==
    /\ call.fn = "keyFromRow"
    /\ call.ret = <<>>
    /\ call' = [call EXCEPT !.ret = <<keyFromRow(call.args[1])>>]
    /\ UNCHANGED <<store, env, pc, error, runs, runVars, passes>>

NextKey == ApplyKeyFromRow

SpecKey == InitKey /\ [][NextKey]_vars


(***************************************************************************)
(* mergeStateDatabase applied on its own to one row of a state database,   *)
(* with no new rows yet and an empty rowMap                                *)
(***************************************************************************)
InitMerge ==
    /\ store = <<>>
    /\ env = <<>>
    /\ call \in {[fn |-> "mergeStateDatabase", args |-> <<row>>, ret |-> <<>>] : row \in KeyRows}
    /\ Idle

\* newRows and rowMap after the call are kept in a 1-tuple.
ApplyMergeStateDatabase ==
    /\ call.fn = "mergeStateDatabase"
    /\ call.ret = <<>>
    /\ call' = [call EXCEPT !.ret = <<mergeStateDatabase(<<>>, {}, <<call.args[1]>>)>>]
    /\ UNCHANGED <<store, env, pc, error, runs, runVars, passes>>

NextMerge == ApplyMergeStateDatabase

SpecMerge == InitMerge /\ [][NextMerge]_vars


(***************************************************************************)
(* The query of getEmail for a row on its own                              *)
(***************************************************************************)
MaxSlashes == 2

\* No protocol, http:// and https://
Protocols ==
    { <<>>, <<"h", "t", "t", "p", ":", "/", "/">>, <<"h", "t", "t", "p", "s", ":", "/", "/">> }

\* A host, a host with a path and a host with a subdomain.
Hosts == { <<"x", ".", "a", "u">>, <<"x", ".", "a", "u", "/", "p">>, <<"w", ".", "x", ".", "a", "u">> }

Slashes(n) == [k \in 1..n |-> "/"]

\* The values of council_website: a protocol, a host and trailing slashes.
Websites == {p \o h \o Slashes(n) : p \in Protocols, h \in Hosts, n \in 0..MaxSlashes}

QueryRows == {Row(name, CouncilX, website, Null) : name \in {Jo, Al}, website \in Websites}

InitQuery ==
    /\ store = <<>>
    /\ env = <<>>
    /\ call \in {[fn |-> "getEmail", args |-> <<row>>, ret |-> <<>>] : row \in QueryRows}
    /\ Idle

\* getEmail hands the query to googleSearch; it is kept in a 1-tuple.
ApplyQuery ==
    /\ call.fn = "getEmail"
    /\ call.ret = <<>>
    /\ call' = [call EXCEPT !.ret = <<Query(call.args[1])>>]
    /\ UNCHANGED <<store, env, pc, error, runs, runVars, passes>>

NextQuery == ApplyQuery

SpecQuery == InitQuery /\ [][NextQuery]_vars


(***************************************************************************)
(* matchEmails applied on its own to a text                                *)
(***************************************************************************)
\* The number of fragments of which a text is made.
MaxFragments == 2

\* "jo@x.au", "i@x.abcde" (five letters after the last dot), "J@X.AU",
\* "b.co", and single characters.
Fragments ==
    { EmailJo,
      <<"i", "@", "x", ".", "a", "b", "c", "d", "e">>,
      <<"J", "@", "X", ".", "A", "U">>,
      <<"b", ".", "c", "o">>,
      <<" ">>, <<"@">>, <<".">>, <<"a">> }

RECURSIVE Concat(_)
Concat(parts) == IF parts = <<>> THEN <<>> ELSE Head(parts) \o Concat(Tail(parts))

Texts == {Concat(parts) : parts \in UNION {[1..n -> Fragments] : n \in 0..MaxFragments}}

InitMatch ==
    /\ store = <<>>
    /\ env = <<>>
    /\ call \in {[fn |-> "matchEmails", args |-> <<text>>, ret |-> <<>>] : text \in Texts}
    /\ Idle

\* The value returned is kept in a 1-tuple (the array may be empty).
ApplyMatchEmails ==
    /\ call.fn = "matchEmails"
    /\ call.ret = <<>>
    /\ call' = [call EXCEPT !.ret = <<matchEmails(call.args[1])>>]
    /\ UNCHANGED <<store, env, pc, error, runs, runVars, passes>>

NextMatch == ApplyMatchEmails

SpecMatch == InitMatch /\ [][NextMatch]_vars


(***************************************************************************)
(* Properties                                                              *)
(***************************************************************************)
\* The keys of the rows of a table, in order.
Keys(table) == [i \in 1..Len(table) |-> keyFromRow(table[i])]

KeySet(table) == {keyFromRow(table[i]) : i \in 1..Len(table)}

Distinct(seq) == \A i, j \in 1..Len(seq) : i # j => seq[i] # seq[j]

\* The reconciliation pass of this run has merged every state database.
PassComplete == Len(fetch) > 0 /\ \A k \in 1..Len(fetch) : fetch[k] = "done"

\* The keys that occur in the state databases of this run.
BatchKeys == UNION {KeySet(Remote(stateDatabases[k])) : k \in 1..Len(stateDatabases)}

\* The rows served by the state databases of this run, in all.
BatchRows == LET n[k \in 0..Len(stateDatabases)] ==
                     IF k = 0 THEN 0 ELSE n[k - 1] + Len(Remote(stateDatabases[k]))
             IN  n[Len(stateDatabases)]

\* C1: the keys of the stored rows stay pairwise distinct over all runs, and
\* while a reconciliation pass merges, no row to insert has the key of a
\* stored row or of another row to insert.
C1_KeysStayDistinct ==
    /\ Distinct(Keys(store))
    /\ pc = "merging" => Distinct(Keys(store \o newRows))

\* C1: a pass has inserted rows and has dropped rows of the state databases.
C1_Witness ==
    /\ pc = "closed"
    /\ PassComplete
    /\ Len(writes) = 3
    /\ store = ExecuteAll(<<>>, writes)
    /\ BatchRows = 6

\* C2: when a reconciliation pass has merged every state database, newRows
\* holds exactly one row for each key that occurs in a state database and not
\* in the rows read, and none for a key of the rows read; the keys are given
\* by the rows read and the state databases alone, in whatever order they
\* are listed and arrive.
C2_ExactlyTheNewKeys ==
    /\ KeySet(newRows) \cap KeySet(rows) = {}
    /\ PassComplete => /\ Distinct(Keys(newRows))
                       /\ KeySet(newRows) = BatchKeys \ KeySet(rows)

\* C2: a pass over "b,a" has merged both databases, with rows known
\* before it and a new one found.
C2_Witness ==
    /\ PassComplete
    /\ stateDatabases = << <<"b">>, <<"a">> >>
    /\ Len(rows) = 2
    /\ Len(newRows) = 1
    /\ KeySet(rows) \cap BatchKeys # {}

\* The rows for which this run has sent a query.
Queried == {queries[n].row : n \in 1..Len(queries)}

\* The searches dispatched by findEmails before it reached row i.
DispatchedBefore(i) == Cardinality({j \in 1..(i - 1) : task[j].st # "none"})

\* C3 as stated: in a search run, a row whose stored email is not empty
\* is not searched and has the result existing-email.
C3_ExistingEmailOutcome ==
    pc = "searching" =>
        \A i \in Indices : Truthy(store[i].email) =>
            i \notin Queried /\ rows[i].result = "existing-email"

\* C3 as amended: in a search run, a row whose stored email is not empty
\* (the sentinel "none" included) is not searched and keeps its email; its
\* result is existing-email, or it has no result because findEmails had
\* dispatched MAX_SEARCHES_PER_RUN searches before it reached the row.
C3_NeverSearchedAgain ==
    pc = "searching" =>
        \A i \in Indices : Truthy(store[i].email) =>
            /\ i \notin Queried
            /\ task[i].st = "none"
            /\ rows[i].email = store[i].email
            /\ \/ rows[i].result = "existing-email"
               \/ rows[i].result = NoResult /\ DispatchedBefore(i) >= MAX_SEARCHES_PER_RUN

\* C3: a later run searches another row while a row marked "none" is left alone.
C3_Witness ==
    /\ runs >= 2
    /\ pc = "searching"
    /\ queries # <<>>
    /\ \E i \in Indices : store[i].email = None /\ rows[i].result = "existing-email"

\* C5: a run sends at most MAX_SEARCHES_PER_RUN queries.
C5_SearchBudget == Len(queries) <= MAX_SEARCHES_PER_RUN

\* C5: the budget is used up while a row without email is left for a later run.
C5_Witness ==
    /\ pc = "searching"
    /\ Len(queries) = MAX_SEARCHES_PER_RUN
    /\ \E i \in Indices : task[i].st = "none" /\ RowOutcome(rows[i]) = "search"

\* The stored email is an address.
IsAddress(email) == matchEmails(email) = <<email>>

\* C4: from an empty table and one state database with one councillor
\* without email: run 1 sends no query and ends with one stored row whose
\* email is empty; run 2 searches that row and leaves its email an address,
\* "none", or empty after a search that failed or returned nothing; every
\* later run leaves exactly one stored row, also when it fetches the state
\* database again.
C4_EndToEnd ==
    /\ runs = 1 => /\ queries = <<>>
                   /\ pc = "closed" => Len(store) = 1 /\ ~Truthy(store[1].email)
    /\ runs = 2 /\ pc \in {"closed", "crashed"} =>
           /\ Queried = {1}
           /\ Len(store) = 1
           /\ \/ IsAddress(store[1].email) /\ store[1].email # None /\ rows[1].result = "email"
              \/ store[1].email = None /\ rows[1].result \in {"no-matching-email", "no-email-found"}
              \/ /\ ~Truthy(store[1].email)
                 /\ \/ rows[1].result \in {"error-during-search", "no-search-results"}
                    \/ pc = "crashed"
    /\ runs >= 2 => Len(store) = 1 /\ keyFromRow(store[1]) = Jo \o CouncilX

\* C4: run 3 has fetched the state database again and has inserted nothing.
C4_Witness ==
    /\ runs = 3
    /\ pc = "closed"
    /\ requests = << <<"c">> >>
    /\ PassComplete
    /\ Len(store) = 1
    /\ store[1].email = None

\* The rows for which findEmails dispatched a search.
Dispatched == {i \in Indices : task[i].st # "none"}

\* C6: once findEmails has returned, a run is on one of two paths.  With a
\* search dispatched it sends queries, requests no state database, and ends
\* in updateAll, whose statements are its only writes.  With none dispatched
\* no row was eligible, the run sends no query, and ends in insertNewRows
\* after the merge of every state database.  db.close is called once.
C6_OneEndOfRunPath ==
    pc \notin {"idle", "reading"} =>
        IF Dispatched # {}
        THEN /\ pc \in {"searching", "closed", "crashed"}
             /\ requests = <<>> /\ fetch = <<>> /\ newRows = <<>>
             /\ pc = "closed" => /\ Queried = Dispatched
                                 /\ writes = updateAll(rows)
                                 /\ Len(store) = Len(rows)
                                 /\ closes = 1
             /\ pc # "closed" => writes = <<>>
        ELSE /\ \A i \in Indices : RowOutcome(rows[i]) # "search"
             /\ queries = <<>>
             /\ pc \in {"merging", "closed", "crashed", "exited"}
             /\ pc = "closed" => /\ PassComplete
                                 /\ Len(requests) = Len(stateDatabases)
                                 /\ writes = insertNewRows(newRows)
                                 /\ store = [i \in Indices |-> Columns(rows[i])] \o newRows
                                 /\ closes = 1
             /\ pc # "closed" => writes = <<>>

\* C6: both paths were taken: the third row was inserted by the first run
\* and its email is written by the updateAll of the third.
C6_Witness ==
    /\ runs = 3
    /\ pc = "closed"
    /\ Len(store) = 3
    /\ queries # <<>>
    /\ store[3].email = None
    /\ writes # <<>>

\* C7 as stated: once a search has given its row the result
\* no-search-results, the run is at its end: updateAll has run and the
\* database is closed, with no other search still to be answered.
C7_StopsOnNoSearchResults ==
    \A i \in Indices : rows[i].result = "no-search-results" => pc = "closed"

\* C8 as stated: no failure of the web search ends the process, a row whose
\* search failed has the result error-during-search, and its stored email
\* is still empty after updateAll.
C8_SearchFailureContained ==
    /\ error # "SyntaxError: googleSearch"
    /\ \A i \in Indices : rows[i].result = "error-during-search" =>
           ~Truthy(store[i].email) /\ RowOutcome(readAll(store)[i]) = "search"

\* C9: when updateAll has run, the stored email of a row whose search
\* returned results with no email in any snippet or page is "none".
C9_NoEmailFoundStoresNone ==
    pc = "closed" =>
        \A i \in Indices :
            /\ task[i].st = "done"
            /\ rows[i].result \notin {"error-during-search", "no-search-results"}
            /\ task[i].emails = <<>>
            => store[i].email = None

\* C9: such a row, beside one whose search failed.
C9_Witness ==
    /\ pc = "closed"
    /\ \E i, j \in Indices :
           /\ task[i].st = "done" /\ task[i].emails = <<>> /\ rows[i].result = "no-email-found"
           /\ store[i].email = None
           /\ rows[j].result = "error-during-search"

\* C10 as stated: when the local part of a candidate contains the first or
\* the last name, getBestEmail returns "email" with a matching candidate
\* whose distance to the name is the least among the matching candidates.
C10_LeastDistance ==
    call.fn = "getBestEmail" /\ call.ret # <<>> =>
        LET nameLower == toLowerCase(trim(call.args[1]))
            emails == call.args[2]
            user(i) == MatchUser(toLowerCase(emails[i]))
            matching == {i \in 1..Len(emails) : containsAny(user(i), FirstOrLast(nameLower)) > 0}
        IN  matching # {} =>
                /\ call.ret[1] = "email"
                /\ \E i \in matching :
                       /\ emails[i] = call.ret[2]
                       /\ \A j \in matching : levenshtein(nameLower, user(i)) <= levenshtein(nameLower, user(j))

\* The text of an address before its first '@'.
LocalPart(email) ==
    IF \E i \in 1..Len(email) : email[i] = "@"
    THEN SubSeq(email, 1, (CHOOSE i \in 1..Len(email) : email[i] = "@" /\ \A j \in 1..(i - 1) : email[j] # "@") - 1)
    ELSE email

\* The candidates whose local part contains the first or the last name.
MatchingCandidates(name, emails) ==
    LET probes == FirstOrLast(toLowerCase(trim(name)))
    IN  {i \in 1..Len(emails) :
            \E p \in 1..Len(probes) : Contains(LocalPart(toLowerCase(emails[i])), probes[p])}

\* C11 as stated: getBestEmail gives every name and list of candidates one
\* of three outcomes: "email" exactly when the local part of some candidate
\* contains the first or the last name; "no-matching-email", with a
\* candidate of the list, exactly when the list is not empty and no
\* candidate matches; "no-email-found" with "" exactly when the list is empty.
C11_Classification ==
    call.fn = "getBestEmail" /\ call.ret # <<>> =>
        LET emails == call.args[2]
            matching == MatchingCandidates(call.args[1], emails)
        IN  /\ call.ret[1] \in {"email", "no-matching-email", "no-email-found"}
            /\ call.ret[1] = "email" <=> matching # {}
            /\ call.ret[1] = "no-matching-email" <=> emails # <<>> /\ matching = {}
            /\ call.ret[1] = "no-email-found" <=> emails = <<>>
            /\ call.ret[1] # "no-email-found" => \E i \in 1..Len(emails) : emails[i] = call.ret[2]
            /\ call.ret[1] = "no-email-found" => call.ret[2] = <<>>

\* C20 as stated: getBestEmail returns one of its outcome tuples, without
\* raising, for every name and every list of candidates, a candidate that
\* begins with '@' included.
C20_NeverRaises ==
    call.fn = "getBestEmail" /\ call.ret # <<>> =>
        /\ call.ret[1] # "TypeError"
        /\ call.ret[1] \in {"email", "no-matching-email", "no-email-found"}

\* s without the white space before its first and after its last character
\* that is no white space.
StripEnds(s) ==
    LET solid == {i \in 1..Len(s) : s[i] \notin Whitespace}
    IN  IF solid = {} THEN <<>>
        ELSE SubSeq(s, CHOOSE i \in solid : \A j \in solid : i <= j,
                       CHOOSE i \in solid : \A j \in solid : j <= i)

\* The row with the values of its columns f and g exchanged.
Exchanged(row, f, g) ==
    [h \in (DOMAIN row \ {f, g}) \cup (IF f \in DOMAIN row THEN {g} ELSE {})
                                  \cup (IF g \in DOMAIN row THEN {f} ELSE {}) |->
        IF h = f THEN row[g] ELSE IF h = g THEN row[f] ELSE row[h]]

\* Column f of the row holds a value that is not empty.
Populated(row, f) == Truthy(Field(row, f))

\* C12: the name of a row is its councillor, else its name, else ""; its
\* council is its council_name, else its council, else ""; the key is the
\* name followed by the council, without the white space at the two ends of
\* the whole and in the case given.  So the key is the same when the one
\* populated name column is exchanged for the other, likewise for the
\* council, and the key of a row without these columns is "".
C12_KeyFromRow ==
    call.fn = "keyFromRow" /\ call.ret # <<>> =>
        LET row == call.args[1]
            key == call.ret[1]
            name == IF Populated(row, "councillor") THEN row.councillor
                    ELSE IF Populated(row, "name") THEN row.name ELSE <<>>
            council == IF Populated(row, "council_name") THEN row.council_name
                       ELSE IF Populated(row, "council") THEN row.council ELSE <<>>
        IN  /\ key = StripEnds(name \o council)
            /\ Populated(row, "councillor") # Populated(row, "name") =>
                   key = keyFromRow(Exchanged(row, "councillor", "name"))
            /\ Populated(row, "council_name") # Populated(row, "council") =>
                   key = keyFromRow(Exchanged(row, "council_name", "council"))
            /\ DOMAIN row \cap KeyFields = {} => key = <<>>

\* C12: the name is given in name alone, both council columns are
\* populated, and white space is kept inside the key.
C12_Witness ==
    /\ call.fn = "keyFromRow"
    /\ call.ret = << <<"x", " ", "J", "o">> >>
    /\ DOMAIN call.args[1] = {"name", "council_name", "council"}
    /\ call.args[1].council = <<" ", "x", " ">>

\* C13: a reconciliation pass that follows, in a later run, a pass whose
\* rows were inserted appends no row: the state databases are the same in
\* every run, and the second pass reads the table that the first one left
\* (with the emails that search runs in between may have written).
C13_SecondPassAppendsNothing ==
    PassComplete /\ passes >= 2 => newRows = <<>> /\ writes = <<>>

\* C13: the first run inserted the rows of database "d" into an empty table
\* and the second run, with no row to search, reconciled again.
C13_Witness ==
    /\ runs = 2
    /\ passes = 2
    /\ PassComplete
    /\ env = <<"d">>
    /\ Len(rows) = 2
    /\ store = ExecuteAll(<<>>, insertNewRows(mergeStateDatabase(<<>>, {}, Remote(<<"d">>)).newRows))

\* C14 as stated: a fetch of a state database that fails, or that returns
\* a body that is no JSON, does not end the reconciliation pass: the process
\* does not die of it, so the other state databases are still merged and
\* insertNewRows and closeDatabase are still reached.
C14_FetchFailureContained ==
    pc = "crashed" => error \notin {"TypeError: mergeStateDatabase", "SyntaxError: fetchDatabase"}

\* C15 as stated: a run that has read the table and has nothing left to do
\* has called closeDatabase, once, whatever MORPH_STATE_DATABASES holds.
C15_ClosedExactlyOnce ==
    /\ closes <= 1
    /\ pc \in {"closed", "exited"} => closes = 1

\* C16: a step that changes the table or issues a statement is the step
\* that ends the run, taken when every search dispatched in the run has
\* completed, its page fetches included, or when every state database of the
\* run has been fetched and merged; so a run that dies or ends before that
\* step has issued no statement and leaves the table as it was read.
C16_NoWriteBeforeCompletion ==
    [][/\ (store' # store \/ writes' \notin {writes, <<>>}) =>
              /\ pc = "searching" \/ pc = "merging"
              /\ pc' = "closed"
              /\ \A i \in DOMAIN task' : task'[i].st \in {"none", "done"}
              /\ \A k \in DOMAIN fetch' : fetch'[k] = "done"
              /\ pc = "searching" => writes' = updateAll(rows')
              /\ pc = "merging" => writes' = insertNewRows(newRows')
       /\ pc' \in {"searching", "merging", "crashed", "exited"} => store' = store /\ writes' = <<>>
      ]_vars

\* C16: a run died when one of its searches had found an email, which was
\* not written.
C16_Witness ==
    /\ pc = "crashed"
    /\ writes = <<>>
    /\ \E i \in Indices : rows[i].result = "email" /\ ~Truthy(store[i].email)

\* The rows that a pass appends when it merges the state databases of this
\* run one after the other in the order in which they are listed.
MergedInListedOrder ==
    LET merged[k \in 0..Len(stateDatabases)] ==
            IF k = 0 THEN [newRows |-> <<>>, rowMap |-> KeySet(rows)]
            ELSE mergeStateDatabase(merged[k - 1].newRows, merged[k - 1].rowMap, Remote(stateDatabases[k]))
    IN  merged[Len(stateDatabases)].newRows

\* C17 as stated: the rows appended by a reconciliation pass are those of a
\* merge of the state databases in the order in which they are listed, each
\* in the order of its rows, whatever the order in which the fetches
\* complete; of two rows with one key in two databases, that of the
\* database listed later is dropped.
C17_ListedOrder ==
    PassComplete => newRows = MergedInListedOrder

\* The rows whose search was dispatched and has not completed.
Pending == {i \in Indices : task[i].st \notin {"none", "done"}}

C19_SearchesIndependent ==
    [][pc = "searching" =>
           \A i \in Indices :
               (rows'[i] # rows[i] \/ task'[i] # task[i]) =>
                   /\ \A j \in Indices \ {i} : rows'[j] = rows[j] /\ task'[j] = task[j]
                   /\ task[i].st = "query" /\ task'[i].st # "done" =>
                          task'[i].emails = SnippetEmails(task'[i].results)
                   /\ task[i].st = "page" =>
                          \E html \in PageBodies : task'[i].emails = task[i].emails \o matchEmails(html)
                   /\ task[i].st = "immediate" => task'[i].emails = task[i].emails
                   /\ task'[i].st # "done" => rows'[i] = rows[i]
                   /\ task'[i].st = "done" =>
                          \/ /\ task[i].st = "query"
                             /\ rows'[i] = [rows[i] EXCEPT !.result = "error-during-search"]
                          \/ /\ task[i].st = "query"
                             /\ rows'[i] = [rows[i] EXCEPT !.result = "no-search-results"]
                          \/ LET best == getBestEmail(rows[i].councillor, task'[i].emails)
                             IN  rows'[i] = [rows[i] EXCEPT !.result = best[1], !.email = best[2]]
                   /\ pc' = "closed" => store' = ExecuteAll(store, updateAll(rows'))
      ]_vars

\* C19: the second row is resolved, with no candidate, while the first row
\* holds candidates and fetches a page.
C19_Witness ==
    /\ pc = "searching"
    /\ Len(task) >= 2
    /\ task[1].st = "page"
    /\ task[1].emails # <<>>
    /\ task[2].st = "done"
    /\ task[2].emails = <<>>
    /\ rows[2].result = "no-email-found"

\* s has the form local@domain.tld: one '@', before it one or more of
\* [A-Za-z0-9._%+-], after it one or more of [A-Za-z0-9.-], a dot, and two
\* to four lower-case letters.
EmailForm(s) ==
    LET ats == {i \in 1..Len(s) : s[i] = "@"}
    IN  /\ Cardinality(ats) = 1
        /\ LET a == CHOOSE i \in ats : TRUE
           IN  /\ a >= 2
               /\ \A i \in 1..(a - 1) : s[i] \in UserChars
               /\ \E t \in 2..4 :
                      LET p == Len(s) - t
                      IN  /\ p >= a + 2
                          /\ s[p] = "."
                          /\ \A i \in (a + 1)..(p - 1) : s[i] \in DomainChars
                          /\ \A i \in (p + 1)..Len(s) : s[i] \in LowerSet

\* The length of the longest substring of text of that form that begins at
\* position i, 0 when there is none.
LongestFormAt(text, i) ==
    LET lens == {n \in 1..(Len(text) - i + 1) : EmailForm(SubSeq(text, i, i + n - 1))}
    IN  IF lens = {} THEN 0 ELSE CHOOSE n \in lens : \A m \in lens : m <= n

\* The substrings of that form from left to right: the first that begins at
\* or after position i, at its longest, then those after its end.
RECURSIVE FormsFrom(_, _)
FormsFrom(text, i) ==
    IF i > Len(text) THEN <<>>
    ELSE IF LongestFormAt(text, i) = 0 THEN FormsFrom(text, i + 1)
    ELSE <<SubSeq(text, i, i + LongestFormAt(text, i) - 1)>>
         \o FormsFrom(text, i + LongestFormAt(text, i))

\* C21: matchEmails returns the substrings of the text of the form
\* local@domain.tld that do not overlap, from left to right, each the
\* leftmost one after the end of the one before and at its longest, and the
\* empty list when there is none, as for a text without '@'.
C21_MatchEmails ==
    call.fn = "matchEmails" /\ call.ret # <<>> =>
        /\ call.ret[1] = FormsFrom(call.args[1], 1)
        /\ (\A i \in 1..Len(call.args[1]) : call.args[1][i] # "@") => call.ret[1] = <<>>

\* C21: "i@x.abcdejo@x.au" gives "i@x.abcd" and "ejo@x.au".
C21_Witness ==
    /\ call.fn = "matchEmails"
    /\ call.ret # <<>>
    /\ Len(call.ret[1]) = 2
    /\ call.ret[1][1] = <<"i", "@", "x", ".", "a", "b", "c", "d">>
    /\ call.ret[1][2] = <<"e">> \o EmailJo

\* The columns of a row other than email.
Identity(row) ==
    <<row.councillor, row.position, row.council_name, row.ward, row.council_website>>

\* C22: with the rowids 1..n in the order of reading, the list of a search
\* run keeps, from readAll to updateAll, one record for each stored row at
\* the position of that row; and the step of updateAll changes, for each
\* record with a result to write, the email of the stored row at the
\* position of the record, which is the row it was read from, and changes
\* no other row.
C22_PositionalUpdate ==
    [][pc = "searching" =>
           /\ Len(rows') = Len(store)
           /\ \A i \in 1..Len(store) : Identity(rows'[i]) = Identity(store[i])
           /\ Len(store') = Len(store)
           /\ \A i \in 1..Len(store) :
                  store'[i] =
                      IF pc' = "closed" /\ rows'[i].result = "email"
                      THEN [store[i] EXCEPT !.email = rows'[i].email]
                      ELSE IF pc' = "closed" /\ rows'[i].result \in {"no-matching-email", "no-email-found"}
                      THEN [store[i] EXCEPT !.email = None]
                      ELSE store[i]
           /\ \A n \in 1..Len(writes') :
                  /\ writes'[n].op = "UPDATE"
                  /\ writes'[n].rowid \in 1..Len(store)
                  /\ rows'[writes'[n].rowid].result \in {"email", "no-matching-email", "no-email-found"}
      ]_vars

\* C22: of three rows the second alone is written: the search of the first
\* failed and the third had an email.
C22_Witness ==
    /\ pc = "closed"
    /\ Len(store) = 3
    /\ writes = <<[op |-> "UPDATE", email |-> None, rowid |-> 2]>>
    /\ rows[1].result = "error-during-search"
    /\ store[2].email = None

\* C23: no step makes the table shorter; a step of a search run adds no row
\* and changes no column but email; a step of a reconciliation run leaves
\* every row that was in the table as it was and only appends rows; no other
\* step changes the table.
C23_Frame ==
    [][/\ Len(store') >= Len(store)
       /\ pc = "searching" =>
              /\ Len(store') = Len(store)
              /\ \A i \in 1..Len(store) : Identity(store'[i]) = Identity(store[i])
       /\ pc = "merging" => SubSeq(store', 1, Len(store)) = store
       /\ pc \notin {"searching", "merging"} => store' = store
      ]_vars

\* C23: a reconciliation run has appended rows to a table that was not
\* empty, and the search run after it has written emails.
C23_Witness ==
    /\ runs = 2
    /\ passes = 1
    /\ pc = "closed"
    /\ Len(store) >= 4
    /\ writes # <<>>
    /\ writes[1].op = "UPDATE"

\* C24: when updateAll has run, a row with the result no-matching-email
\* holds in memory a candidate of its search, which is not "none", and its
\* stored email is "none"; and a run sends no query for a row whose stored
\* email is "none".
C24_NoMatchingEmailStoresNone ==
    /\ pc = "closed" =>
           \A i \in Indices : rows[i].result = "no-matching-email" =>
               /\ \E n \in 1..Len(task[i].emails) : task[i].emails[n] = rows[i].email
               /\ rows[i].email # None
               /\ store[i].email = None
    /\ pc = "searching" =>
           \A i \in Indices : store[i].email = None => i \notin Queried /\ task[i].st = "none"

\* C24: the candidate info@x.au, found for Jo, was kept from the table.
C24_Witness ==
    /\ pc = "closed"
    /\ Len(rows) >= 1
    /\ rows[1].councillor = Jo
    /\ rows[1].result = "no-matching-email"
    /\ rows[1].email = EmailInfo
    /\ store[1].email = None

\* C25 as stated: a search fetches one page at a time, that of the result
\* at its index, for fewer than MAX_SEARCH_RESULTS results before it, and
\* fetches no page for a result with a fileFormat; its completion comes
\* after its last fetch.
C25_PageFetchSequence ==
    \A i \in Indices :
        /\ task[i].st \in {"page", "immediate"} =>
               /\ task[i].index < Len(task[i].results)
               /\ task[i].index < MAX_SEARCH_RESULTS
               /\ ~Truthy(task[i].results[task[i].index + 1].fileFormat)
        /\ task[i].st = "done" => task[i].results = <<>>

\* The rows of a table that findEmails would search: no email, a name and a website.
Eligible(table) == {i \in 1..Len(table) : RowOutcome(table[i]) = "search"}

\* C26 as stated, its last part: once a run has found no row to search and
\* has reconciled, no later run sends a query.
C26_NoSearchOnceNoneLeft ==
    passes >= 1 => queries = <<>>

\* The rowids of the tables that are reached.
RowIds == 1..4

\* The eligible rows up to rowid i: so many runs that search resolve row i.
EligibleUpTo(i) == {j \in Eligible(store) : j <= i}

\* C26 as amended: when every search returns results, a search run that is
\* under way ends with a stored email that is not empty for every row it
\* searched; the rows it searched are the first eligible ones, as many as
\* MAX_SEARCHES_PER_RUN allows and at least one, and the eligible rows
\* after it are those it did not search; a run that finds no eligible row
\* sends no query and reconciles, and the rows appended without email are
\* searched by the runs that follow; so an eligible row gets a stored email
\* that is not empty once as many runs have followed as there are eligible
\* rows up to it.
C26_Converges ==
    /\ [](DOMAIN store \subseteq RowIds)
    /\ \A i \in RowIds :
           (i \in Eligible(store) /\ runs + Cardinality(EligibleUpTo(i)) <= MaxRuns)
               ~> (i <= Len(store) /\ Truthy(store[i].email))
    /\ [][pc = "searching" /\ pc' = "closed" =>
              /\ Dispatched' # {}
              /\ Dispatched' \subseteq Eligible(store)
              /\ Cardinality(Dispatched') =
                     (IF Cardinality(Eligible(store)) < MAX_SEARCHES_PER_RUN
                      THEN Cardinality(Eligible(store)) ELSE MAX_SEARCHES_PER_RUN)
              /\ \A i \in Dispatched', j \in Eligible(store) \ Dispatched' : i < j
              /\ Eligible(store') = Eligible(store) \ Dispatched'
         ]_vars
    /\ [](pc \notin {"idle", "reading"} /\ Eligible(store) = {} /\ writes = <<>> =>
              queries = <<>> /\ pc \in {"merging", "closed", "crashed", "exited"})
    /\ (pc = "searching") ~> (pc = "closed" /\ \A i \in Dispatched : Truthy(store[i].email))

\* C26: three rows that reconciliation appended to an empty table were
\* searched by two runs, and the run after them reconciled again.
C26_Witness ==
    /\ passes = 2
    /\ pc = "closed"
    /\ Len(store) = 3
    /\ Eligible(store) = {}
    /\ \A i \in 1..3 : Truthy(store[i].council_website) /\ Truthy(store[i].email)
    /\ newRows = <<>>

\* s without the prefix p, s itself when it does not start with p.
StripPrefix(s, p) ==
    IF Len(s) >= Len(p) /\ SubSeq(s, 1, Len(p)) = p THEN SubSeq(s, Len(p) + 1, Len(s)) ELSE s

\* A website without its protocol prefix, http:// or https://.
StripProtocol(url) ==
    StripPrefix(StripPrefix(url, <<"h", "t", "t", "p", ":", "/", "/">>),
                <<"h", "t", "t", "p", "s", ":", "/", "/">>)

\* s without one trailing slash.
StripSlash(s) == IF s # <<>> /\ s[Len(s)] = "/" THEN SubSeq(s, 1, Len(s) - 1) ELSE s

\* C27: the query of getEmail for a record is its name, then " site:", then
\* its website without the protocol prefix and without one trailing slash,
\* for a website with http://, with https:// or with no protocol.
C27_Query ==
    call.fn = "getEmail" /\ call.ret # <<>> =>
        call.ret[1] = call.args[1].councillor \o <<" ", "s", "i", "t", "e", ":">>
                          \o StripSlash(StripProtocol(call.args[1].council_website))

\* The rows read from a table into which insertNewRows put the rows new.
ReadBack(new) == readAll(ExecuteAll(<<>>, insertNewRows(new)))

\* C28: the row that mergeStateDatabase builds from a row r of a state
\* database has the key of r, whichever column names r uses and whichever
\* columns it lacks; the key is in rowMap, the row read back from the table
\* has the same key, and with that key in rowMap the same r is not appended
\* again.
C28_KeyPreserved ==
    call.fn = "mergeStateDatabase" /\ call.ret # <<>> =>
        LET r == call.args[1]
            merged == call.ret[1]
        IN  /\ Len(merged.newRows) = 1
            /\ keyFromRow(merged.newRows[1]) = keyFromRow(r)
            /\ merged.rowMap = {keyFromRow(r)}
            /\ keyFromRow(ReadBack(merged.newRows)[1]) = keyFromRow(r)
            /\ mergeStateDatabase(<<>>, {keyFromRow(ReadBack(merged.newRows)[1])}, <<r>>).newRows = <<>>

\* C28: a row with the columns name and council only, both filled, was merged.
C28_Witness ==
    /\ call.fn = "mergeStateDatabase"
    /\ call.ret # <<>>
    /\ DOMAIN call.args[1] = {"name", "council"}
    /\ call.args[1].name = Jo
    /\ Truthy(call.args[1].council)
    /\ call.ret[1].newRows[1].councillor = Jo
    /\ keyFromRow(call.ret[1].newRows[1]) # <<>>

=============================================================================
